---- MODULE Spec2Model ----
(***************************************************************************)
(* Greedy set cover (cover.py): check_input, union, biggest_intersection,   *)
(* largest_valued_key and the carving loop of main.                         *)
(*                                                                          *)
(* A Python dict is an insertion-ordered sequence of <<key, value>> pairs.  *)
(* A Python set is a TLA+ set; the order in which a set is iterated is not  *)
(* fixed by the language (string hashes change between processes), so every *)
(* iteration over a set is a choice among its enumerations.                 *)
(***************************************************************************)
EXTENDS Integers, Sequences, FiniteSets

\* ---------------------------------------------------------------- bounds
MaxSubsets == 3
MaxElem == 3
MaxLen == 2

Names == <<"A", "B", "C", "D", "E">>

\* ------------------------------------------------- dict and set helpers
Keys(d) == {d[i][1] : i \in 1..Len(d)}

IndexOf(d, k) == CHOOSE i \in 1..Len(d) : d[i][1] = k

Get(d, k) == d[IndexOf(d, k)][2]

\* d[k] = v : replaces in place when k is present, appends otherwise
DictSet(d, k, v) ==
  IF k \in Keys(d)
  THEN [i \in 1..Len(d) |-> IF d[i][1] = k THEN <<k, v>> ELSE d[i]]
  ELSE Append(d, <<k, v>>)

\* d.pop(k) for a key that is present: the remaining entries keep their order
DictPop(d, k) ==
  LET at == IndexOf(d, k)
  IN  [i \in 1..(Len(d) - 1) |-> IF i < at THEN d[i] ELSE d[i + 1]]

\* set(value) of a list
ToSet(value) == {value[i] : i \in 1..Len(value)}

\* the orders in which a set can be iterated
Enumerations(S) ==
  {f \in [1..Cardinality(S) -> S] :
     \A i, j \in 1..Cardinality(S) : i # j => f[i] # f[j]}

\* ------------------------------------------------------------ raw input
ListValue(elems) == [kind |-> "list", elems |-> elems]

OtherValue == [kind |-> "other", elems |-> <<>>]

RawLists == UNION {[1..n -> 1..MaxElem] : n \in 0..MaxLen}

RawValues == {ListValue(l) : l \in RawLists} \cup {OtherValue}

Reverse(s) == [i \in 1..Len(s) |-> s[Len(s) + 1 - i]]

\* generated objects list their names in descending order, so that the order
\* of iteration differs from the order of the names
KeyOrder(n) == Reverse(SubSeq(Names, 1, n))

RawObject(keys, vals) ==
  [kind |-> "dict", items |-> [i \in 1..Len(keys) |-> <<keys[i], vals[i]>>]]

\* a top-level value that is not an object: items only carries what len()
\* counts (the entries of an array, the characters of a string)
RawArrays ==
  {[kind |-> "list", items |-> <<>>],
   [kind |-> "list", items |-> << <<"0", ListValue(<<1>>)>> >>]}

RawScalars ==
  {[kind |-> "string", items |-> <<>>],
   [kind |-> "string", items |-> << <<"0", OtherValue>> >>],
   [kind |-> "number", items |-> <<>>]}

Example ==
  [kind |-> "dict",
   items |-> << <<"A", ListValue(<<1, 2, 3>>)>>,
                <<"B", ListValue(<<3, 4>>)>>,
                <<"C", ListValue(<<5>>)>> >>]

IsRawInput(json) ==
  \/ \E n \in 0..MaxSubsets : \E vals \in [1..n -> RawValues] :
       json = RawObject(KeyOrder(n), vals)
  \/ json \in RawArrays
  \/ json \in RawScalars
  \/ json = Example

\* ---------------------------------------------------------- check_input
HasDuplicateNoCheck(value, value_set) == FALSE

HasDuplicate(value, value_set) == Len(value) # Cardinality(value_set)

Raise(msg) == [ok |-> FALSE, err |-> msg, value |-> <<>>]

Return(v) == [ok |-> TRUE, err |-> "", value |-> v]

RECURSIVE CheckItems(_, _, _)
CheckItems(items, i, alt_subset) ==
  IF i > Len(items) THEN Return(alt_subset)
  ELSE LET key == items[i][1]
           value == items[i][2]
           value_set == ToSet(value.elems)
       IN  IF value.kind # "list"
           THEN Raise("Secondary JSON type must be list.")
           ELSE IF HasDuplicate(value.elems, value_set)
           THEN Raise("There's a duplicate.")
           ELSE CheckItems(items, i + 1, DictSet(alt_subset, key, value_set))

\* len() of a number raises TypeError before any test is made
check_input(subsets) ==
  IF subsets.kind = "number" THEN Raise("TypeError")
  ELSE IF Len(subsets.items) = 0 THEN Raise("Input is empty.")
  ELSE IF subsets.kind # "dict" THEN Raise("Parent JSON type must be dict.")
  ELSE CheckItems(subsets.items, 1, <<>>)

\* ---------------------------------------------------------------- union
unionFirstOnly(subsets) == subsets[1][2]

union(subsets) ==
  LET first == subsets[1][2]
  IN  first \cup UNION {subsets[i][2] : i \in 2..Len(subsets)}

\* --------------------------------------------------- largest_valued_key
NoneKey == "<None>"

LongerOrEqual(length, biggest_size) == length >= biggest_size

Longer(length, biggest_size) == length > biggest_size

RECURSIVE LargestScan(_, _, _, _)
LargestScan(dic, i, biggest_size, biggest_key) ==
  IF i > Len(dic) THEN biggest_key
  ELSE LET length == Cardinality(dic[i][2])
       IN  IF Longer(length, biggest_size)
           THEN LargestScan(dic, i + 1, length, dic[i][1])
           ELSE LargestScan(dic, i + 1, biggest_size, biggest_key)

largest_valued_key(dic) == LargestScan(dic, 1, -1, NoneKey)

\* ------------------------------------------------- biggest_intersection
IntersectSizeWhole(universe, value) == Cardinality(value)

IntersectSize(universe, value) == Cardinality(universe \cap value)

BetterOrEqual(intersect_size, opt_size) == intersect_size >= opt_size

Better(intersect_size, opt_size) == intersect_size > opt_size

ClearKeep(opt) == opt

Clear(opt) == <<>>

ScanInit == [opt_size |-> -1, opt_key |-> "", opt |-> <<>>]

RECURSIVE Scan(_, _, _, _)
Scan(universe, subsets, i, st) ==
  IF i > Len(subsets) THEN st
  ELSE LET key == subsets[i][1]
           value == subsets[i][2]
           intersect_size == IntersectSize(universe, value)
       IN  IF Better(intersect_size, st.opt_size)
           THEN Scan(universe, subsets, i + 1,
                     [opt_size |-> intersect_size,
                      opt_key |-> key,
                      opt |-> DictSet(Clear(st.opt), key, value)])
           ELSE IF intersect_size = st.opt_size
           THEN Scan(universe, subsets, i + 1,
                     [st EXCEPT !.opt = DictSet(st.opt, key, value)])
           ELSE Scan(universe, subsets, i + 1, st)

biggest_intersection(universe, subsets, large) ==
  LET st == Scan(universe, subsets, 1, ScanInit)
  IN  IF large THEN largest_valued_key(st.opt) ELSE st.opt_key

\* --------------------------------------------------------------- sorted
RECURSIVE Insert(_, _)
Insert(s, x) ==
  IF s = <<>> THEN <<x>>
  ELSE IF x < Head(s) THEN <<x>> \o s
  ELSE <<Head(s)>> \o Insert(Tail(s), x)

RECURSIVE InsertDescending(_, _)
InsertDescending(s, x) ==
  IF s = <<>> THEN <<x>>
  ELSE IF x > Head(s) THEN <<x>> \o s
  ELSE <<Head(s)>> \o InsertDescending(Tail(s), x)

RECURSIVE sortedDescending(_)
sortedDescending(iterable) ==
  IF iterable = <<>> THEN <<>>
  ELSE InsertDescending(sortedDescending(Tail(iterable)), Head(iterable))

sortedUnsorted(iterable) == iterable

RECURSIVE SortAscending(_)
SortAscending(iterable) ==
  IF iterable = <<>> THEN <<>>
  ELSE Insert(SortAscending(Tail(iterable)), Head(iterable))

sorted(iterable) == SortAscending(iterable)

\* ----------------------------------------------------------------- main
differenceKeep(universe, opt_val) == universe

difference(universe, opt_val) == universe \ opt_val

WhileTest(u) == Cardinality(u) # 0

VARIABLES
  raw_json,       \* the loaded JSON value handed to check_input
  large,          \* the --large flag
  pc,             \* position in main
  subset_dict,    \* remaining subsets, name -> set
  universe,       \* elements still to cover
  solution,       \* name -> sorted list, in selection order
  opt_key,        \* the name returned by biggest_intersection
  error,          \* message of the exception that ended the run
  iterations,     \* completed passes through the while loop of this run
  run,            \* 1 for the first run on raw_json, 2 for the second
  prev_solution   \* the solution the first run ended with

vars == <<raw_json, large, pc, subset_dict, universe, solution, opt_key,
          error, iterations, run, prev_solution>>

Init ==
  /\ IsRawInput(raw_json)
  /\ large \in BOOLEAN
  /\ pc = "check"
  /\ subset_dict = <<>>
  /\ universe = {}
  /\ solution = <<>>
  /\ opt_key = ""
  /\ error = ""
  /\ iterations = 0
  /\ run = 1
  /\ prev_solution = <<>>

\* line 120: subset_dict = check_input(raw_json)
CheckInput ==
  /\ pc = "check"
  /\ LET r == check_input(raw_json)
     IN  IF r.ok
         THEN /\ subset_dict' = r.value
              /\ pc' = "union"
              /\ error' = error
         ELSE /\ subset_dict' = subset_dict
              /\ pc' = "error"
              /\ error' = r.err
  /\ UNCHANGED <<raw_json, large, universe, solution, opt_key, iterations,
                 run, prev_solution>>

\* lines 124-127: the universe, the empty solution, the first loop test
Start ==
  /\ pc = "union"
  /\ universe' = union(subset_dict)
  /\ solution' = <<>>
  /\ pc' = IF WhileTest(universe') THEN "select" ELSE "done"
  /\ UNCHANGED <<raw_json, large, subset_dict, opt_key, error, iterations,
                 run, prev_solution>>

\* line 129: opt_key = biggest_intersection(universe, subset_dict, large)
Select ==
  /\ pc = "select"
  /\ LET k == biggest_intersection(universe, subset_dict, large)
     IN  IF k = NoneKey
         THEN /\ pc' = "error"
              /\ error' = "AssertionError"
              /\ opt_key' = opt_key
         ELSE /\ pc' = "pop"
              /\ error' = error
              /\ opt_key' = k
  /\ UNCHANGED <<raw_json, large, subset_dict, universe, solution,
                 iterations, run, prev_solution>>

\* lines 131-135, then the loop test of line 127
Carve ==
  /\ pc = "pop"
  /\ IF opt_key \notin Keys(subset_dict)
     THEN /\ pc' = "error"
          /\ error' = "KeyError"
          /\ UNCHANGED <<subset_dict, universe, solution, iterations>>
     ELSE LET opt_val == Get(subset_dict, opt_key)
          IN  /\ subset_dict' = DictPop(subset_dict, opt_key)
              /\ universe' = difference(universe, opt_val)
              /\ \E enum \in Enumerations(opt_val) :
                   solution' = DictSet(solution, opt_key, sorted(enum))
              /\ iterations' = iterations + 1
              /\ pc' = IF WhileTest(universe') THEN "select" ELSE "done"
              /\ error' = error
  /\ UNCHANGED <<raw_json, large, opt_key, run, prev_solution>>

\* main is invoked a second time on the same file with the same flags
Rerun ==
  /\ pc = "done"
  /\ run = 1
  /\ prev_solution' = solution
  /\ run' = 2
  /\ pc' = "check"
  /\ subset_dict' = <<>>
  /\ universe' = {}
  /\ solution' = <<>>
  /\ opt_key' = ""
  /\ iterations' = 0
  /\ UNCHANGED <<raw_json, large, error>>

\* one run of main
Main == CheckInput \/ Start \/ Select \/ Carve

Next == Main \/ Rerun

Spec == Init /\ [][Next]_vars

\* a single run: main is sequential code, each of its steps is taken
FairSpec == Init /\ [][Main]_vars /\ WF_vars(Main)

\* ------------------------------------------------------------ properties
\* what the claims speak about, stated on the input and on the state alone
InputSet(i) == ToSet(raw_json.items[i][2].elems)

Repeats(l) == \E j, k \in 1..Len(l) : j < k /\ l[j] = l[k]

Malformed ==
  \/ raw_json.kind # "dict"
  \/ Len(raw_json.items) = 0
  \/ \E i \in 1..Len(raw_json.items) : raw_json.items[i][2].kind # "list"
  \/ \E i \in 1..Len(raw_json.items) : Repeats(raw_json.items[i][2].elems)

Ascending(l) == \A j, k \in 1..Len(l) : j < k => l[j] < l[k]

\* size of the overlap of the i-th remaining subset with the universe
Overlap(i) == Cardinality(universe \cap subset_dict[i][2])

MaxOverlap(i) == \A j \in 1..Len(subset_dict) : Overlap(j) <= Overlap(i)

Tied == {i \in 1..Len(subset_dict) : MaxOverlap(i)}

Size(i) == Cardinality(subset_dict[i][2])

LargestTied == {i \in Tied : \A j \in Tied : Size(j) <= Size(i)}

\* C1 (coverage): when the loop has finished, the union of the sequences of
\* the solution is the union of the sets of the original input.
Coverage ==
  pc = "done" =>
    UNION {ToSet(solution[i][2]) : i \in 1..Len(solution)}
      = UNION {InputSet(i) : i \in 1..Len(raw_json.items)}

CoverageWitness ==
  /\ pc = "done"
  /\ Len(raw_json.items) = 3
  /\ Len(solution) = 2
  /\ Cardinality(UNION {InputSet(i) : i \in 1..3}) = 3

\* C2 (progress): the subset chosen in an iteration overlaps the universe of
\* that moment, the universe strictly shrinks in every iteration, and nothing
\* is selected once the universe is empty.
Progress ==
  [][/\ pc = "pop" =>
          /\ opt_key \in Keys(subset_dict)
          /\ universe \cap Get(subset_dict, opt_key) # {}
          /\ universe' \subseteq universe
          /\ universe' # universe
     /\ pc' \in {"select", "pop"} => universe' # {}]_vars

ProgressWitness ==
  /\ pc = "pop"
  /\ iterations >= 1
  /\ \E i \in 1..Len(subset_dict) : Overlap(i) = 0 /\ Size(i) > 1

\* C3 (fidelity): every entry of the solution carries a name of the input and
\* the ascending, duplicate-free sequence of all elements of that input subset.
Fidelity ==
  \A i \in 1..Len(solution) :
    \E j \in 1..Len(raw_json.items) :
      /\ raw_json.items[j][1] = solution[i][1]
      /\ Ascending(solution[i][2])
      /\ ToSet(solution[i][2]) = InputSet(j)
      /\ Len(solution[i][2]) = Len(raw_json.items[j][2].elems)

FidelityWitness ==
  /\ Len(solution) >= 2
  /\ ToSet(solution[1][2]) \cap ToSet(solution[2][2]) # {}
  /\ \E j \in 1..Len(raw_json.items) :
       /\ raw_json.items[j][1] = solution[2][1]
       /\ Len(raw_json.items[j][2].elems) = 2
       /\ ~Ascending(raw_json.items[j][2].elems)

\* C4 (termination): on a valid input, empty subsets included, the loop ends
\* with the universe empty after at most as many iterations as there are
\* input subsets, and never selects from an exhausted mapping.
Termination ==
  /\ [](~Malformed =>
          /\ pc # "error"
          /\ iterations <= Len(raw_json.items)
          /\ pc \in {"select", "pop"} => Len(subset_dict) > 0
          /\ pc = "done" => universe = {})
  /\ (~Malformed /\ pc = "check") ~> (pc = "done")

TerminationWitness ==
  /\ pc = "done"
  /\ iterations = 2
  /\ Len(raw_json.items) = 3
  /\ \E i \in 1..3 : InputSet(i) = {}

\* C5 (determinism): a second run on the same input with the same flag ends
\* with the same names in the same order mapped to the same sequences.
Determinism == (run = 2 /\ pc = "done") => solution = prev_solution

DeterminismWitness ==
  /\ run = 2
  /\ pc = "done"
  /\ Len(solution) >= 2
  /\ Len(solution[1][2]) >= 2

\* C6 (validation): an empty object, an array (or any other top-level value
\* that is not an object), a value that is not a list or a list with a
\* repeated value ends check_input in an error before the loop is entered;
\* any other input is returned with the same names and the sets of the
\* listed elements.
Validation ==
  /\ Malformed =>
       /\ pc \in {"check", "error"}
       /\ pc = "error" => error # ""
       /\ subset_dict = <<>> /\ universe = {} /\ solution = <<>>
  /\ ~Malformed =>
       /\ pc # "error"
       /\ pc = "union" =>
            subset_dict = [i \in 1..Len(raw_json.items) |->
                             <<raw_json.items[i][1], InputSet(i)>>]

ValidationWitness ==
  /\ pc = "error"
  /\ raw_json.kind = "dict"
  /\ Len(raw_json.items) = 2
  /\ raw_json.items[1][2].kind = "list"
  /\ ~Repeats(raw_json.items[1][2].elems)
  /\ raw_json.items[2][2].kind = "list"
  /\ Repeats(raw_json.items[2][2].elems)

\* C7 (example): on A=[1,2,3], B=[3,4], C=[5] the loop selects A, B, C in that
\* order, each mapped to its sorted elements, with either tie-break mode.
Expected ==
  << <<"A", <<1, 2, 3>>>>, <<"B", <<3, 4>>>>, <<"C", <<5>>>> >>

ExampleRun ==
  raw_json = Example =>
    /\ pc # "error"
    /\ Len(solution) <= 3
    /\ solution = SubSeq(Expected, 1, Len(solution))
    /\ pc = "done" => solution = Expected

ExampleWitness ==
  /\ raw_json = Example
  /\ pc = "done"
  /\ large
  /\ run = 2
  /\ prev_solution = Expected

\* C8 (first maximum): without --large the returned name is the first of the
\* remaining names, in iteration order, whose overlap with the universe is
\* the maximum; a later tie does not replace it.
FirstMaximum ==
  (pc = "pop" /\ ~large) =>
    \E i \in Tied :
      /\ opt_key = subset_dict[i][1]
      /\ \A j \in Tied : i <= j

FirstMaximumWitness ==
  /\ pc = "pop"
  /\ ~large
  /\ Cardinality(Tied) >= 2
  /\ \E i \in 1..Len(subset_dict) : i \notin Tied /\ \A j \in Tied : i < j

\* C9 (candidates): with --large the dictionary handed to largest_valued_key
\* holds exactly the remaining names of maximal overlap, with their full sets,
\* and the returned name is one of them of the largest cardinality.
Candidates ==
  (pc = "pop" /\ large) =>
    LET opt == Scan(universe, subset_dict, 1, ScanInit).opt
    IN  /\ Keys(opt) = {subset_dict[i][1] : i \in Tied}
        /\ \A n \in 1..Len(opt) : Get(subset_dict, opt[n][1]) = opt[n][2]
        /\ \E i \in LargestTied : opt_key = subset_dict[i][1]

CandidatesWitness ==
  /\ pc = "pop"
  /\ large
  /\ Cardinality(Tied) >= 2
  /\ \E i \in Tied : i \notin LargestTied /\ \A j \in LargestTied : i < j

\* C10 as stated (last sub-tie): with --large, among the candidates of
\* maximal overlap that share the largest cardinality the last one scanned
\* is returned.
LastSubTie ==
  (pc = "pop" /\ large) =>
    \E i \in LargestTied :
      /\ opt_key = subset_dict[i][1]
      /\ \A j \in LargestTied : j <= i

\* C10 as amended (first sub-tie): with --large, among the candidates of
\* maximal overlap that share the largest cardinality the first one scanned
\* is returned.
FirstSubTie ==
  (pc = "pop" /\ large) =>
    \E i \in LargestTied :
      /\ opt_key = subset_dict[i][1]
      /\ \A j \in LargestTied : i <= j

FirstSubTieWitness ==
  /\ pc = "pop"
  /\ large
  /\ Cardinality(LargestTied) >= 2
  /\ iterations >= 1

====
